---- MODULE Spec2Model ----
(***************************************************************************)
(* A model of the request pipeline of spfy: the bounded-concurrency        *)
(* scheduler limited_as_completed (spfy/asynch/__init__.py and             *)
(* spfy/async/__init__.py), the cache key of the asynch client and its     *)
(* request executor (_api_call / _internal_call with the ETag cache).      *)
(***************************************************************************)
EXTENDS Integers, Sequences, FiniteSets, TLC

VARIABLES
  \* ---- limited_as_completed --------------------------------------------
  variant,            \* "asynch" (with ignore_exceptions) or "async" (without)
  limit,              \* the limit argument
  nOps,               \* length of the finite source `coros`
  ignore_exceptions,  \* the exception policy argument
  status,             \* per operation: "unstarted", "running", "ok", a failure kind, "cancelled"
  startCount,         \* per operation: how many times ensure_future was applied to it
  srcPos,             \* how many items have been read from the source iterator
  futures,            \* the list `futures`
  lpc,                \* position of the generator
  picked,             \* the future `f` removed from the list by the current scan (0: none)
  pickIdx,            \* index `f` had in the list when it was removed
  pickSrcPos,         \* srcPos at the moment `f` was removed
  yielded,            \* the sequence of items handed to the consumer
  raised,             \* the exception that left the generator, or NoError
  doneOrder,          \* operations in the order in which they completed
  callerCancelled,    \* remaining_futures on which the caller called cancel()
  \* ---- _get_cache_key ---------------------------------------------------
  reqA, reqB,         \* two requests (url, params, payload) as _internal_call receives them
  keyA, keyB,         \* their cache keys
  kpc,                \* "args" before and "keyed" after the keys are computed
  \* ---- SpotifyClient._api_call / _internal_call and the ETag cache -------
  session,            \* the OAuth session: [authorized, token], token counting the tokens fetched
  flow,               \* self.flow: "client_credentials" or "authorization_code"
  user_id,            \* whether a user identity is bound to the client
  apiCalls,           \* user.api_calls, the usage counter
  server,             \* per url, the remote resource: [etag, text]
  changes,            \* how many times a remote resource has changed
  cacheEtag,          \* redis: per cache key, the value under "<key>:etag"
  cacheBody,          \* redis: per cache key, the bytes under "<key>:response"
  disturbed,          \* how many times entries expired or were corrupted in redis
  epc,                \* position of the current call
  call,               \* arguments of the current call of _api_call
  stack,              \* the nested activations of _internal_call, innermost last
  resp,               \* the response being handled
  outcomes,           \* per finished call, what it returned or raised
  netlog,             \* every request sent, with the answer it got
  events,             \* how many times the environment has interfered (see MaxEvents)
  budget,             \* how many calls and how many interferences one behaviour has
  clock,              \* seconds the client has spent in asyncio.sleep
  \* ---- SpotifyResult.get_next_params_list ------------------------------
  page,               \* the initial page: [next, href, total]
  pageLimit,          \* the `limit` argument of iterall / all / get_next_params_list
  params_list,        \* the derived parameter sets
  ppc,                \* "page" before and "derived" after the derivation
  \* ---- SpotifyResultIterator -------------------------------------------
  firstItems,         \* the items of the initial page
  pageItems,          \* per derived page, the items its fetch returns
  result_iterator,    \* self.result_iterator: the items not yet read from the current page
  taken,              \* how many pages the walker has taken from self.responses
  delivered,          \* the items handed to the consumer: [page, idx]
  wpc                 \* "next", "await", "ended" or "raised"

VARIABLES
  \* ---- concurrent calls of _internal_call on one cache key --------------
  rEtag,              \* redis: the entry under "<key>:etag": [val, src, ttl]
  rBody,              \* redis: the entry under "<key>:response": [val, src, ttl]
  origin,             \* the remote resource: [etag, text]
  sent,               \* how many requests the calls have sent
  ticks,              \* how much time has passed
  tpc,                \* per call: its position
  tInm,               \* per call: the If-None-Match header of its request
  tResp,              \* per call: the answer it handles: [status, etag, text, id]
  tGot,               \* per call: what redis.get(response_key) returned
  \* ---- SpotifyResult.iterall of the sync client --------------------------
  _next_result,            \* self._next_result: a page or NoneResult
  _next_result_available,  \* self._next_result_available: the event is set
  threads,            \* the prefetch threads that have not ended: [id, page, pos]
  started,            \* how many prefetch threads have been started
  run,                \* how many times iterall has been called on the result
  result,             \* the local `result` of the generator
  itemIdx,            \* the place of the next item of `result`
  ipc,                \* position of the generator
  iterYielded,        \* the items the current run has yielded: [page, idx]
  timedOut,           \* the current run ended by the 10 s wait running out
  \* ---- async_lru ---------------------------------------------------------
  cache,              \* the OrderedDict: its keys, least recently used first
  memo,               \* per caller of the memoizer: [key, pos]
  memoCalls           \* how many calls of the memoizer have begun

limVars == << variant, limit, nOps, ignore_exceptions, status, startCount, srcPos,
              futures, lpc, picked, pickIdx, pickSrcPos, yielded, raised,
              doneOrder, callerCancelled >>

keyVars == << reqA, reqB, keyA, keyB, kpc >>

exVars == << session, flow, user_id, apiCalls, server, changes, cacheEtag, cacheBody,
             disturbed, epc, call, stack, resp, outcomes, netlog, events, clock, budget >>

pagerVars == << page, pageLimit, params_list, ppc >>

walkVars == << firstItems, pageItems, result_iterator, taken, delivered, wpc >>

concVars == << rEtag, rBody, origin, sent, ticks, tpc, tInm, tResp, tGot >>

\* the components added to the five above
thrVars == << _next_result, _next_result_available, threads, started, run, result, itemIdx,
              ipc, iterYielded, timedOut >>

lruVars == << cache, memo, memoCalls >>

moreVars == << concVars, thrVars, lruVars >>

vars == << limVars, keyVars, exVars, pagerVars, walkVars, moreVars >>

\* what the limiter leaves alone, and what the cache key leaves alone
notLimVars   == << keyVars, exVars, pagerVars, walkVars, moreVars >>
notKeyVars   == << limVars, exVars, pagerVars, walkVars, moreVars >>
notExVars    == << limVars, keyVars, pagerVars, walkVars, moreVars, budget >>
notPagerVars == << limVars, keyVars, exVars, walkVars, moreVars >>
notWalkVars  == << limVars, keyVars, exVars, pagerVars, moreVars >>

\* ------------------------------------------------------------------ bounds
MaxOps   == 3
MaxLimit == 2

\* ------------------------------------------------------- limiter: values
Kinds    == {"K1", "K2"}          \* two unrelated exception classes
Ops      == 1..MaxOps
NoError  == [type |-> "none"]
None     == "None"

Policies ==
  [form : {"bool"}, val : BOOLEAN]
    \cup [form : {"tuple"}, kinds : SUBSET Kinds]
    \cup [form : {"class"}, kind : Kinds]

Done(f) == status[f] \in ({"ok", "cancelled"} \cup Kinds)

Min(a, b) == IF a < b THEN a ELSE b

SeqToSet(s) == {s[i] : i \in 1..Len(s)}

RemoveAt(s, i) == SubSeq(s, 1, i - 1) \o SubSeq(s, i + 1, Len(s))

\* should_ignore_exception(exc, ignore_exceptions): True is "ignore all"; a
\* tuple of classes goes through isinstance(exc, tuple); a bare class is not
\* an instance of (tuple, Exception), so the conjunction is False.
should_ignore_exception(exc, pol) ==
  \/ (pol.form = "bool" /\ pol.val = TRUE)
  \/ (pol.form = "tuple" /\ exc \in pol.kinds)

\* ----------------------------------------------------- cache key: values
MaxParams == 2                      \* at most this many query parameters per request

ParamNames  == {"a", "b"}
ParamValues == {"1", None}          \* a value, or None (dropped by _internal_call)
NoPayload   == [form |-> "none"]
NoRequest   == [url |-> << >>, params |-> << >>, payload |-> NoPayload]
NoKey       == << >>

\* ordered dicts with distinct names: the kwargs of _api_call in insertion order
ParamDicts ==
  {ps \in UNION {[1..n -> ParamNames \X ParamValues] : n \in 0..MaxParams} :
     \A i, j \in 1..Len(ps) : ps[i][1] = ps[j][1] => i = j}

KeyUrls == {<< "u" >>, << "u", "v" >>}

\* payloads: None, the strings "", "v" and '{"a":1}', and the dict {"a": 1}
StrA1 == << "{", "q", "a", "q", ":", "1", "}" >>
KeyPayloads ==
  {NoPayload}
    \cup [form : {"str"}, chars : {<< >>, << "v" >>, StrA1}]
    \cup [form : {"dict"}, dict : {<< << "a", "1" >> >>}]

KeyRequests == [url : KeyUrls, params : ParamDicts, payload : KeyPayloads]

\* json.dumps of a dict, character by character ("q" stands for the double
\* quote): {"a":1,"b":1} keeps the insertion order of the dict.
RECURSIVE JsonItems(_)
JsonItems(ps) ==
  IF ps = << >> THEN << >>
  ELSE << "q", ps[1][1], "q", ":", ps[1][2] >>
         \o (IF Len(ps) > 1 THEN << "," >> ELSE << >>)
         \o JsonItems(Tail(ps))

JsonDumps(ps) == << "{" >> \o JsonItems(ps) \o << "}" >>

\* truth value of a payload: None, "" and {} are falsy
Truthy(payload) ==
  \/ (payload.form = "str" /\ payload.chars # << >>)
  \/ (payload.form = "dict" /\ payload.dict # << >>)

\* if payload and not isinstance(payload, (bytes, str)): payload = json.dumps(payload)
EncodePayload(payload) ==
  IF Truthy(payload) /\ payload.form = "dict"
    THEN [form |-> "str", chars |-> JsonDumps(payload.dict)]
    ELSE payload

\* params = {k: v for k, v in params.items() if v is not None}
IsSet(p) == p[2] # None
SanitizeParams(ps) == SelectSeq(ps, IsSet)

\* sha1 over the bytes it was fed, taken as collision-free
Sha1(bytes) == << "sha1", bytes >>

\* _get_cache_key(url, params, payload)
_get_cache_key(url, params, payload) ==
  Sha1(url
       \o (IF params # << >> THEN JsonDumps(params) ELSE << >>)
       \o (IF Truthy(payload) THEN payload.chars ELSE << >>))

\* the first lines of _internal_call: payload encoding, None-dropping, key
CacheKeyOf(req) ==
  _get_cache_key(req.url, SanitizeParams(req.params), EncodePayload(req.payload))

KeyIdle ==
  /\ reqA = NoRequest
  /\ reqB = NoRequest
  /\ keyA = NoKey
  /\ keyB = NoKey
  /\ kpc = "idle"

\* ------------------------------------------------------ executor: values
MaxCalls    == 2        \* calls of _api_call in one behaviour
MaxEvents   == 2        \* 429, 5xx and 202 answers, failed requests, changes of remote
                        \* resources, expiries and corruptions of cache entries in one
                        \* behaviour
MaxRetries  == 1        \* the largest `retries` a caller passes
MaxDepth    == 6        \* nested activations of _internal_call in one call
MaxCallEvents == 4      \* interferences in a behaviour of one call (CallSpec)

MaxAttempts == 3        \* stop_after_attempt(3) of the retry decorator

DefaultRetries == 5     \* retries=5 in the signature of _internal_call

DeviceBusyDelay == 5    \* await asyncio.sleep(5) before a device-busy retry

NotGiven == -1          \* the caller of _api_call passes no `retries`

\* retries = kwargs.pop("retries", 0) in _api_call
PopRetries(retries) == IF retries = NotGiven THEN 0 ELSE retries

ExUrls == {<< "u" >>}    \* the urls the calls go to
ExRequest(url) == [url |-> url, params |-> << >>, payload |-> NoPayload]
ExKeys == {CacheKeyOf(ExRequest(u)) : u \in ExUrls}

NoEtag == "no-etag"
Etags  == {"e1", "e2"}

\* response texts: empty, the JSON null, an empty JSON object, non-empty objects
Texts == {"", "null", "{}", "{x}", "{y}"}

Resources == [etag : Etags \cup {NoEtag}, text : Texts]

\* decoded values
NoneValue == [t |-> "none", keys |-> {}]
JsonLoads(text) ==
  CASE text = "{}"  -> [t |-> "dict", keys |-> {}]
    [] text = "{x}" -> [t |-> "dict", keys |-> {"x"}]
    [] text = "{y}" -> [t |-> "dict", keys |-> {"y"}]
    [] OTHER        -> NoneValue

\* `not results`: None and the empty dict are falsy
Falsy(v) == v.keys = {}

\* msgpack.dumps / msgpack.loads, and what redis holds under a response key
NoBytes == [fmt |-> "nil", val |-> NoneValue]
Garbage == [fmt |-> "garbage", val |-> NoneValue]
MsgpackDumps(v) == [fmt |-> "msgpack", val |-> v]
\* try: results = msgpack.loads(response) except: results = None
MsgpackLoadsOrNone(bytes) == IF bytes.fmt = "msgpack" THEN bytes.val ELSE NoneValue

\* what a call returns or raises
Returned(v)  == [kind |-> "value", value |-> v, exc |-> "-"]
ReturnedNone == [kind |-> "none", value |-> NoneValue, exc |-> "-"]
Raised(e)    == [kind |-> "error", value |-> NoneValue, exc |-> e]

NoCall     == [url |-> << >>, retries |-> 0, check_202 |-> FALSE, if_none_match |-> NoEtag]
NoResponse == [status |-> 0, etag |-> NoEtag, text |-> "", retry_after |-> << >>]

Frame(retries, check_202, increment_api_calls) ==
  [retries |-> retries, check_202 |-> check_202,
   increment_api_calls |-> increment_api_calls, if_none_match |-> NoEtag,
   attempt |-> 1]

ExIdle ==
  /\ session = [authorized |-> FALSE, token |-> 0]
  /\ flow = "authorization_code"
  /\ user_id = FALSE
  /\ apiCalls = 0
  /\ server = [u \in ExUrls |-> [etag |-> NoEtag, text |-> ""]]
  /\ changes = 0
  /\ cacheEtag = [k \in ExKeys |-> NoEtag]
  /\ cacheBody = [k \in ExKeys |-> NoBytes]
  /\ disturbed = 0
  /\ epc = "off"
  /\ call = NoCall
  /\ stack = << >>
  /\ resp = NoResponse
  /\ outcomes = << >>
  /\ netlog = << >>
  /\ events = 0
  /\ clock = 0
  /\ budget = [calls |-> 0, events |-> 0]

\* --------------------------------------------------------- pager: values
MaxTotal    == 120      \* the largest `total` of an initial page
MaxPageSize == 100      \* the largest page size a caller passes

DefaultPageSize == 50   \* max_limit = limit or 50
DefaultLimit    == 20   \* int(params.pop('limit', 20))
DefaultOffset   == 0    \* int(params.pop('offset', 0))
NoLimit         == 0    \* limit=None: the caller passes no page size

\* the query of a page's href, as a sequence of (name, value) pairs: an
\* optional offset, an optional limit, an optional market
Optional(name, values) == {<< >>} \cup {<< << name, v >> >> : v \in values}
Queries ==
  {o \o l \o x : o \in Optional("offset", {0, 20, 50}),
                 l \in Optional("limit", {20, 50}),
                 x \in Optional("market", {7})}

NoPage == [next |-> FALSE, href |-> [present |-> FALSE, query |-> << >>], total |-> 0]
Pages  == [next : BOOLEAN, href : [present : BOOLEAN, query : Queries],
           total : 0..MaxTotal]
CallerLimits == {NoLimit, 10, DefaultPageSize, MaxPageSize}

\* {k: v[0] for k, v in parse_qs(url.query).items()}: per name, its first value
QueryNames(q) == {q[i][1] : i \in DOMAIN q}
ParseQs(q) ==
  [k \in QueryNames(q) |->
     q[CHOOSE i \in DOMAIN q : q[i][1] = k /\ \A j \in 1..(i - 1) : q[j][1] # k][2]]

\* params.pop(name, default): the value popped
Pop(params, name, default) ==
  IF name \in DOMAIN params THEN params[name] ELSE default

\* what is left of params after the two pops
Without(params, names) == [k \in (DOMAIN params) \ names |-> params[k]]

\* variant of Range: the stop value itself is produced
RECURSIVE RangeInclusive(_, _, _)
RangeInclusive(start, stop, step) ==
  IF start > stop THEN << >>
  ELSE << start >> \o RangeInclusive(start + step, stop, step)

\* range(start, stop, step) for a positive step
RECURSIVE Range(_, _, _)
Range(start, stop, step) ==
  IF start >= stop THEN << >>
  ELSE << start >> \o Range(start + step, stop, step)

\* max_limit = limit or 50
PageSize(lim) == IF lim # NoLimit THEN lim ELSE DefaultPageSize

\* SpotifyResult.get_next_params_list(limit)
get_next_params_list(pg, lim) ==
  IF pg.next /\ pg.href.present
    THEN LET max_limit == PageSize(lim)
             params    == ParseQs(pg.href.query)
             limit_    == Pop(params, "limit", DefaultLimit)
             offset    == Pop(params, "offset", DefaultOffset)
             rest      == Without(params, {"limit", "offset"})
             offsets   == Range(offset + limit_, pg.total, max_limit)
         IN [i \in DOMAIN offsets |->
               [params |-> rest, limit |-> max_limit, offset |-> offsets[i]]]
    ELSE << >>

PagerIdle ==
  /\ page = NoPage
  /\ pageLimit = NoLimit
  /\ params_list = << >>
  /\ ppc = "off"

\* -------------------------------------------------------- walker: values
\* the items of a page: none, one object, or objects around a null
PageShapes == {<< >>, << "v" >>, << "v", None, "v" >>}

\* iter(result): the items of page f (0: the initial page) in page order,
\* each with its place
ItemsOf(f) == IF f = 0 THEN firstItems ELSE pageItems[f]
PageIter(f) ==
  [i \in 1..Len(ItemsOf(f)) |-> [page |-> f, idx |-> i, val |-> ItemsOf(f)[i]]]

WalkIdle ==
  /\ firstItems = << >>
  /\ pageItems = [f \in Ops |-> << >>]
  /\ result_iterator = << >>
  /\ taken = 0
  /\ delivered = << >>
  /\ wpc = "off"

\* ------------------------------------------- concurrent calls: values
MaxTasks    == 2        \* calls of _internal_call that run concurrently
MaxRequests == 3        \* requests all the calls send in one behaviour
MaxTicks    == 3        \* time units that pass in one behaviour
CacheTtl    == 2        \* config.cache.expire, in time units

Tasks == 1..MaxTasks

\* a key that does not exist in redis
Absent == [val |-> "nil", src |-> 0, ttl |-> 0]

\* setex(key, config.cache.expire, value); src names the response the value
\* was taken from
Entry(val, src) == [val |-> val, src |-> src, ttl |-> CacheTtl]

\* variant of Expire: the TTL is left as it is
ExpireNever(entry) == entry

\* expire(key, config.cache.expire): no effect on a key that does not exist
Expire(entry) == IF entry = Absent THEN Absent ELSE [entry EXCEPT !.ttl = CacheTtl]

\* one time unit later: the TTL runs down, at 0 redis drops the key
Aged(entry) ==
  IF entry = Absent \/ entry.ttl = 1 THEN Absent ELSE [entry EXCEPT !.ttl = @ - 1]

NoAnswerYet == [status |-> 0, etag |-> NoEtag, text |-> "", id |-> 0]

ConcIdle ==
  /\ rEtag = Absent
  /\ rBody = Absent
  /\ origin = [etag |-> NoEtag, text |-> ""]
  /\ sent = 0
  /\ ticks = 0
  /\ tpc = [t \in Tasks |-> "off"]
  /\ tInm = [t \in Tasks |-> NoEtag]
  /\ tResp = [t \in Tasks |-> NoAnswerYet]
  /\ tGot = [t \in Tasks |-> "nil"]

\* ------------------------------------------------ sync iterall: values
MaxPages     == 3       \* pages of the collection, linked by `next`
ItemsPerPage == 2       \* items of each page
MaxRuns      == 2       \* calls of iterall on the same result

NoneResult == 0         \* None: no page

ThreadPages == 1..MaxPages

\* result.next: the page behind the next link, None for the last page
NextOf(pg) == IF pg < MaxPages THEN pg + 1 ELSE NoneResult

\* every item of the collection in page order
AllItems ==
  [n \in 1..(MaxPages * ItemsPerPage) |->
     [page |-> ((n - 1) \div ItemsPerPage) + 1, idx |-> ((n - 1) % ItemsPerPage) + 1]]

ThrIdle ==
  /\ _next_result = NoneResult
  /\ _next_result_available = FALSE
  /\ threads = {}
  /\ started = 0
  /\ run = 0
  /\ result = NoneResult
  /\ itemIdx = 0
  /\ ipc = "off"
  /\ iterYielded = << >>
  /\ timedOut = FALSE

\* --------------------------------------------------- async_lru: values
LruMaxsize  == 2        \* the maxsize argument of async_lru
MaxMemoCalls == 4       \* calls of the memoizer in one behaviour
MaxCallers  == 2        \* callers that await the memoizer concurrently

LruKeys == {"a", "b", "c"}       \* str((args, kwargs)) of the calls
Callers == 1..MaxCallers
NoMemo  == [key |-> "-", pos |-> "idle"]

LruIdle ==
  /\ cache = << >>
  /\ memo = [c \in Callers |-> [key |-> "-", pos |-> "off"]]
  /\ memoCalls = 0

MoreIdle == ConcIdle /\ ThrIdle /\ LruIdle

\* ------------------------------------------------------- limiter: actions
LimInit ==
  /\ variant \in {"asynch", "async"}
  /\ limit \in 1..MaxLimit
  /\ nOps \in 0..MaxOps
  /\ ignore_exceptions \in Policies
  /\ (variant = "async" => ignore_exceptions = [form |-> "bool", val |-> FALSE])
  /\ status = [f \in Ops |-> "unstarted"]
  /\ startCount = [f \in Ops |-> 0]
  /\ srcPos = 0
  /\ futures = << >>
  /\ lpc = "start"
  /\ picked = 0
  /\ pickIdx = 0
  /\ pickSrcPos = 0
  /\ yielded = << >>
  /\ raised = NoError
  /\ doneOrder = << >>
  /\ callerCancelled = {}
  /\ KeyIdle
  /\ ExIdle
  /\ PagerIdle
  /\ WalkIdle
  /\ MoreIdle

\* variant of LStart: the initial slice takes one item too many
LStartOffByOne ==
  /\ lpc = "start"
  /\ LET k == Min(limit + 1, nOps) IN
       /\ futures' = [i \in 1..k |-> i]
       /\ srcPos' = k
       /\ status' = [f \in Ops |-> IF f <= k THEN "running" ELSE status[f]]
       /\ startCount' = [f \in Ops |-> IF f <= k THEN startCount[f] + 1 ELSE startCount[f]]
  /\ lpc' = "while"
  /\ UNCHANGED << notLimVars, variant, limit, nOps, ignore_exceptions, picked, pickIdx,
                  pickSrcPos, yielded, raised, doneOrder, callerCancelled >>

\* futures = [asyncio.ensure_future(c) for c in islice(coros, 0, limit)]
LStart ==
  /\ lpc = "start"
  /\ LET k == Min(limit, nOps) IN
       /\ futures' = [i \in 1..k |-> i]
       /\ srcPos' = k
       /\ status' = [f \in Ops |-> IF f <= k THEN "running" ELSE status[f]]
       /\ startCount' = [f \in Ops |-> IF f <= k THEN startCount[f] + 1 ELSE startCount[f]]
  /\ lpc' = "while"
  /\ UNCHANGED << notLimVars, variant, limit, nOps, ignore_exceptions, picked, pickIdx,
                  pickSrcPos, yielded, raised, doneOrder, callerCancelled >>

\* while futures:
LWhile ==
  /\ lpc = "while"
  /\ lpc' = IF futures = << >> THEN "done" ELSE "sleep"
  /\ UNCHANGED << notLimVars, variant, limit, nOps, ignore_exceptions, status, startCount, srcPos,
                  futures, picked, pickIdx, pickSrcPos, yielded, raised, doneOrder,
                  callerCancelled >>

\* await asyncio.sleep(0): the generator gets the loop back
LSleep ==
  /\ lpc = "sleep"
  /\ lpc' = "scan"
  /\ UNCHANGED << notLimVars, variant, limit, nOps, ignore_exceptions, status, startCount, srcPos,
                  futures, picked, pickIdx, pickSrcPos, yielded, raised, doneOrder,
                  callerCancelled >>

\* A started operation finishes, with a result or with an exception.  The loop
\* runs tasks only while the generator is suspended (in sleep(0), or while the
\* consumer holds a yielded item) or after it has ended.
OpComplete(f, outcome) ==
  /\ lpc \in {"sleep", "consumer", "raised"}
  /\ status[f] = "running"
  /\ status' = [status EXCEPT ![f] = outcome]
  /\ doneOrder' = Append(doneOrder, f)
  /\ UNCHANGED << notLimVars, variant, limit, nOps, ignore_exceptions, startCount, srcPos, futures,
                  lpc, picked, pickIdx, pickSrcPos, yielded, raised, callerCancelled >>

\* variant of FirstDone: the scan takes the last done future of the list
LastDone == CHOOSE i \in 1..Len(futures) :
              /\ Done(futures[i])
              /\ \A j \in (i + 1)..Len(futures) : ~Done(futures[j])

\* for f in futures: if f.done(): futures.remove(f) ...
\* The scan takes the first done future in list order; with none done the
\* while True loop goes back to sleep(0).
FirstDone == CHOOSE i \in 1..Len(futures) :
               /\ Done(futures[i])
               /\ \A j \in 1..(i - 1) : ~Done(futures[j])

LScan ==
  /\ lpc = "scan"
  /\ IF \E i \in 1..Len(futures) : Done(futures[i])
       THEN /\ picked' = futures[FirstDone]
            /\ pickIdx' = FirstDone
            /\ pickSrcPos' = srcPos
            /\ futures' = RemoveAt(futures, FirstDone)
            /\ lpc' = "backfill"
       ELSE /\ lpc' = "sleep"
            /\ UNCHANGED << picked, pickIdx, pickSrcPos, futures >>
  /\ UNCHANGED << notLimVars, variant, limit, nOps, ignore_exceptions, status, startCount, srcPos,
                  yielded, raised, doneOrder, callerCancelled >>

\* variant of LBackfill: the item read from the source is not kept in the list
LBackfillDrop ==
  /\ lpc = "backfill"
  /\ IF srcPos < nOps
       THEN /\ srcPos' = srcPos + 1
            /\ status' = [status EXCEPT ![srcPos + 1] = "running"]
            /\ startCount' = [startCount EXCEPT ![srcPos + 1] = @ + 1]
            /\ UNCHANGED futures
       ELSE UNCHANGED << srcPos, futures, status, startCount >>
  /\ lpc' = "result"
  /\ UNCHANGED << notLimVars, variant, limit, nOps, ignore_exceptions, picked, pickIdx, pickSrcPos,
                  yielded, raised, doneOrder, callerCancelled >>

\* variant of LBackfill: the source is not read before the result is returned
LBackfillLate ==
  /\ lpc = "backfill"
  /\ lpc' = "result"
  /\ UNCHANGED << notLimVars, variant, limit, nOps, ignore_exceptions, status, startCount, srcPos,
                  futures, picked, pickIdx, pickSrcPos, yielded, raised, doneOrder,
                  callerCancelled >>

\* try: newf = next(coros); futures.append(asyncio.ensure_future(newf))
\* except StopIteration: pass
LBackfill ==
  /\ lpc = "backfill"
  /\ IF srcPos < nOps
       THEN /\ srcPos' = srcPos + 1
            /\ futures' = Append(futures, srcPos + 1)
            /\ status' = [status EXCEPT ![srcPos + 1] = "running"]
            /\ startCount' = [startCount EXCEPT ![srcPos + 1] = @ + 1]
       ELSE UNCHANGED << srcPos, futures, status, startCount >>
  /\ lpc' = "result"
  /\ UNCHANGED << notLimVars, variant, limit, nOps, ignore_exceptions, picked, pickIdx, pickSrcPos,
                  yielded, raised, doneOrder, callerCancelled >>

\* variant of FirstToFinishReturns: every failure is swallowed
FirstToFinishReturnsAlways(out) == out \in ({"ok"} \cup Kinds)

\* variant of ReturnValue: an ignored failure is reported like a result
ReturnValueNoNone(out) == "result"

\* variant of RaisedError: remaining_futures is taken before the backfill
RaisedErrorStale(out) ==
  [type |-> "LimitedAsCompletedError", original_exc |-> out, op |-> picked,
   remaining_futures |-> IF pickSrcPos < nOps
                           THEN SubSeq(futures, 1, Len(futures) - 1)
                           ELSE futures]

\* try: return f.result() / except Exception as exc: if should_ignore_exception(...):
\* TRUE when first_to_finish returns a value for outcome `out`, FALSE when it raises.
\* The async variant has no except clause: every failure leaves f.result() as it is.
FirstToFinishReturns(out) ==
  \/ out = "ok"
  \/ (variant = "asynch" /\ should_ignore_exception(out, ignore_exceptions))

\* the value first_to_finish returns: f.result(), or None for an ignored failure
ReturnValue(out) == IF out = "ok" THEN "result" ELSE None

\* raise LimitedAsCompletedError(*exc.args, original_exc=exc, remaining_futures=futures)
\* (the async variant lets the operation's own exception through)
RaisedError(out) ==
  IF variant = "asynch"
    THEN [type |-> "LimitedAsCompletedError", original_exc |-> out, op |-> picked,
          remaining_futures |-> futures]
    ELSE [type |-> out, original_exc |-> out, op |-> picked,
          remaining_futures |-> << >>]

\* return f.result() or the except clause, and `yield await first_to_finish(...)`
LResult ==
  /\ lpc = "result"
  /\ LET out == status[picked] IN
       IF FirstToFinishReturns(out)
         THEN /\ yielded' = Append(yielded, [op |-> picked, val |-> ReturnValue(out)])
              /\ lpc' = "consumer"
              /\ UNCHANGED raised
         ELSE /\ raised' = RaisedError(out)
              /\ lpc' = "raised"
              /\ UNCHANGED yielded
  /\ UNCHANGED << notLimVars, variant, limit, nOps, ignore_exceptions, status, startCount, srcPos,
                  futures, picked, pickIdx, pickSrcPos, doneOrder, callerCancelled >>

\* The consumer asks for the next item: the generator resumes after the yield.
LResume ==
  /\ lpc = "consumer"
  /\ lpc' = "while"
  /\ UNCHANGED << notLimVars, variant, limit, nOps, ignore_exceptions, status, startCount, srcPos,
                  futures, picked, pickIdx, pickSrcPos, yielded, raised, doneOrder,
                  callerCancelled >>

\* for future in exc.remaining_futures: future.cancel()
\* cancel() cancels a future that is not done and is a no-op on a done one.
CallerCancel(f) ==
  /\ lpc = "raised"
  /\ raised.type = "LimitedAsCompletedError"
  /\ f \in SeqToSet(raised.remaining_futures)
  /\ f \notin callerCancelled
  /\ callerCancelled' = callerCancelled \cup {f}
  /\ status' = [status EXCEPT ![f] = IF Done(f) THEN @ ELSE "cancelled"]
  /\ doneOrder' = IF Done(f) THEN doneOrder ELSE Append(doneOrder, f)
  /\ UNCHANGED << notLimVars, variant, limit, nOps, ignore_exceptions, startCount, srcPos, futures,
                  lpc, picked, pickIdx, pickSrcPos, yielded, raised >>

LimNext ==
  \/ LStart
  \/ LWhile
  \/ LSleep
  \/ \E f \in Ops, outcome \in {"ok"} \cup Kinds : OpComplete(f, outcome)
  \/ LScan
  \/ LBackfill
  \/ LResult
  \/ LResume
  \/ \E f \in Ops : CallerCancel(f)

LimiterSpec == LimInit /\ [][LimNext]_vars

\* The event loop resumes the generator whenever it is ready, the consumer
\* keeps iterating, and every started operation eventually completes.
LimiterLive ==
  /\ LimiterSpec
  /\ WF_vars(LStart \/ LWhile \/ LSleep \/ LScan \/ LBackfill \/ LResult)
  /\ WF_vars(LResume)
  /\ \A f \in Ops : SF_vars(\E outcome \in {"ok"} \cup Kinds : OpComplete(f, outcome))

Spec == LimiterSpec

\* ------------------------------------------------------ limiter: claims
YieldedOps == {yielded[i].op : i \in 1..Len(yielded)}
Started    == {f \in Ops : startCount[f] > 0}
Running    == {f \in Ops : status[f] = "running"}
DonePos(f) == CHOOSE i \in 1..Len(doneOrder) : doneOrder[i] = f

\* C1: in every reachable state the in-flight list `futures` holds at most
\* `limit` operations, and at most `limit` started operations are running,
\* under every exception policy and after every backfill.
C1_InFlightBound ==
  /\ Len(futures) <= limit
  /\ Cardinality(Running) <= limit
  /\ Running \subseteq SeqToSet(futures)

C1_Witness ==
  /\ lpc = "result"
  /\ pickSrcPos < nOps
  /\ limit = 2
  /\ Len(futures) = limit
  /\ ignore_exceptions.form = "tuple"

\* C2: with a finite source of nOps operations, when the generator ends
\* without raising, every operation was started exactly once, exactly nOps
\* outcomes were yielded, one per operation, and the in-flight list is empty;
\* and when every started operation completes the generator does end.
C2_Inv ==
  /\ \A f \in Ops : startCount[f] <= 1
  /\ lpc = "done" =>
       /\ futures = << >>
       /\ Len(yielded) = nOps
       /\ YieldedOps = 1..nOps
       /\ \A f \in 1..nOps : startCount[f] = 1
       /\ raised = NoError

C2_ExactlyN == [](C2_Inv) /\ <>(lpc \in {"done", "raised"})

C2_Witness ==
  /\ lpc = "done"
  /\ nOps = 3
  /\ limit = 2
  /\ \E i \in 1..Len(yielded) : yielded[i].val = None

\* C3: when first_to_finish is about to return the outcome of the removed
\* operation, the next operation of the source (if there was one when the
\* operation was removed) has already been started and appended; with the
\* source exhausted nothing was read; and the outcome is then yielded.
C3_BackfillBeforeYield ==
  /\ lpc = "result" =>
       /\ picked \notin YieldedOps
       /\ IF pickSrcPos < nOps
            THEN /\ srcPos = pickSrcPos + 1
                 /\ futures # << >>
                 /\ futures[Len(futures)] = pickSrcPos + 1
                 /\ status[pickSrcPos + 1] = "running"
            ELSE /\ srcPos = pickSrcPos
                 /\ Started = 1..nOps
  /\ lpc = "consumer" =>
       /\ yielded # << >>
       /\ yielded[Len(yielded)].op = picked

C3_Witness ==
  /\ lpc = "consumer"
  /\ pickSrcPos < nOps
  /\ yielded[Len(yielded)].op = picked
  /\ status[pickSrcPos + 1] = "running"

\* C4 (as stated): results are yielded in completion order: of two yielded
\* operations the one yielded first completed first.
C4_CompletionOrder ==
  \A i, j \in 1..Len(yielded) :
    i < j => DonePos(yielded[i].op) < DonePos(yielded[j].op)

\* C4 (amended): only completed operations are yielded, and each scan takes
\* the first completed operation in the order of the in-flight list; so two
\* operations are yielded against their completion order only when both were
\* complete at the same scan, and then in list (source) order.
C4_FirstDoneInListOrder ==
  /\ lpc = "backfill" =>
       /\ Done(picked)
       /\ \A i \in 1..(pickIdx - 1) : ~Done(futures[i])
  /\ \A i \in 1..Len(yielded) : yielded[i].op \in SeqToSet(doneOrder)
  /\ \A i, j \in 1..Len(yielded) :
       i < j => \/ DonePos(yielded[i].op) < DonePos(yielded[j].op)
                \/ yielded[i].op < yielded[j].op

C4_Witness ==
  /\ Len(yielded) >= 2
  /\ DonePos(yielded[2].op) < DonePos(yielded[1].op)

\* C5: an operation that fails with an error the policy does not ignore makes
\* the asynch generator raise LimitedAsCompletedError carrying that error, no
\* item is yielded for it, and once raised nothing more is yielded.
C5_Inv ==
  /\ (lpc = "raised" /\ variant = "asynch") =>
       /\ raised.type = "LimitedAsCompletedError"
       /\ raised.original_exc = status[raised.op]
       /\ raised.original_exc \in Kinds
       /\ ~should_ignore_exception(raised.original_exc, ignore_exceptions)
       /\ raised.op \notin YieldedOps
  /\ \A i \in 1..Len(yielded) :
       status[yielded[i].op] \in Kinds =>
         should_ignore_exception(status[yielded[i].op], ignore_exceptions)
  /\ (lpc = "raised") = (raised # NoError)

C5_RaiseEndsYielding ==
  /\ [](C5_Inv)
  /\ [][lpc = "raised" => (lpc' = "raised" /\ yielded' = yielded /\ raised' = raised)]_vars

C5_Witness ==
  /\ lpc = "raised"
  /\ variant = "asynch"
  /\ ignore_exceptions.form = "tuple"
  /\ ignore_exceptions.kinds # {}
  /\ \E f \in SeqToSet(futures) : status[f] = "ok"
  /\ \E f \in SeqToSet(futures) : status[f] = "running"

\* C6: when LimitedAsCompletedError is raised the limiter has cancelled no
\* operation, and remaining_futures is the in-flight list: the operations
\* started and not yet yielded, without the failed one and with the one
\* backfilled in the same step; the caller can cancel each of them.
C6_RemainingFutures ==
  /\ \A f \in Ops : status[f] = "cancelled" => f \in callerCancelled
  /\ (lpc = "raised" /\ variant = "asynch") =>
       /\ raised.remaining_futures = futures
       /\ SeqToSet(raised.remaining_futures) = (Started \ YieldedOps) \ {raised.op}
       /\ pickSrcPos < nOps => (pickSrcPos + 1) \in SeqToSet(raised.remaining_futures)
       /\ \A f \in SeqToSet(raised.remaining_futures) \ callerCancelled :
            ENABLED CallerCancel(f)

C6_Witness ==
  /\ lpc = "raised"
  /\ variant = "asynch"
  /\ pickSrcPos < nOps
  /\ Len(raised.remaining_futures) = 2
  /\ \E f \in SeqToSet(raised.remaining_futures) : status[f] = "cancelled"

\* C7 (as stated): an operation whose failure is ignored contributes no item
\* to the output sequence.
C7_NoItemForIgnored ==
  \A i \in 1..Len(yielded) : status[yielded[i].op] \notin Kinds

\* C7 (amended): an operation whose failure is ignored contributes exactly one
\* item, None, to the output sequence, in place of a result; the generator
\* does not raise for it and goes on to yield every remaining operation.
C7_NoneForIgnored ==
  /\ \A i \in 1..Len(yielded) :
       /\ (yielded[i].val = None) = (status[yielded[i].op] \in Kinds)
       /\ (yielded[i].val = "result") = (status[yielded[i].op] = "ok")
  /\ \A i, j \in 1..Len(yielded) : yielded[i].op = yielded[j].op => i = j
  /\ (lpc = "done" /\ variant = "asynch") =>
       \A f \in 1..nOps :
         status[f] \in Kinds =>
           \E i \in 1..Len(yielded) : yielded[i] = [op |-> f, val |-> None]

C7_Witness ==
  /\ lpc = "done"
  /\ Len(yielded) = 3
  /\ yielded[1].val = None
  /\ yielded[2].val = "result"
  /\ yielded[3].val = None

\* --------------------------------------------------- cache key: actions
LimIdle ==
  /\ variant = "asynch"
  /\ limit = 1
  /\ nOps = 0
  /\ ignore_exceptions = [form |-> "bool", val |-> FALSE]
  /\ status = [f \in Ops |-> "unstarted"]
  /\ startCount = [f \in Ops |-> 0]
  /\ srcPos = 0
  /\ futures = << >>
  /\ lpc = "idle"
  /\ picked = 0
  /\ pickIdx = 0
  /\ pickSrcPos = 0
  /\ yielded = << >>
  /\ raised = NoError
  /\ doneOrder = << >>
  /\ callerCancelled = {}

KeyInit ==
  /\ reqA \in KeyRequests
  /\ reqB \in KeyRequests
  /\ keyA = NoKey
  /\ keyB = NoKey
  /\ kpc = "args"
  /\ LimIdle
  /\ ExIdle
  /\ PagerIdle
  /\ WalkIdle
  /\ MoreIdle

\* cache_key = self._get_cache_key(url, params, payload), for both requests
ComputeKeys ==
  /\ kpc = "args"
  /\ keyA' = CacheKeyOf(reqA)
  /\ keyB' = CacheKeyOf(reqB)
  /\ kpc' = "keyed"
  /\ UNCHANGED << notKeyVars, reqA, reqB >>

KeyNext == ComputeKeys

KeySpec == KeyInit /\ [][KeyNext]_vars

\* ---------------------------------------------------- cache key: claims
\* the (name, value) pairs of a request once the None values are dropped
ParamSet(req) == {req.params[i] : i \in {k \in 1..Len(req.params) : req.params[k][2] # None}}

\* the bytes sent as the body: none for None, "" and {}
BodyBytes(req) ==
  IF Truthy(req.payload) THEN EncodePayload(req.payload).chars ELSE << >>

SameRequest(a, b) ==
  /\ a.url = b.url
  /\ ParamSet(a) = ParamSet(b)
  /\ BodyBytes(a) = BodyBytes(b)

\* first half of C10: logically identical requests get the same key
SameRequestSameKey ==
  kpc = "keyed" => (SameRequest(reqA, reqB) => keyA = keyB)

\* second half of C10: requests that differ get different keys
OtherRequestOtherKey ==
  kpc = "keyed" => (~SameRequest(reqA, reqB) => keyA # keyB)

\* C10: two requests with the same url, the same body and the same set of
\* (name, value) params after None values are dropped get the same cache key,
\* whatever the insertion order of the params; and two requests that differ
\* in url, params or body get different keys.
C10_KeyOrderIndependent == SameRequestSameKey /\ OtherRequestOtherKey

\* ----------------------------------------------------- executor: actions
ExInit ==
  /\ session \in [authorized : BOOLEAN, token : {0}]
  /\ flow \in {"client_credentials", "authorization_code"}
  /\ user_id = TRUE
  /\ apiCalls = 0
  /\ server \in [ExUrls -> {r \in Resources : r.etag \in {"e1", NoEtag} /\ r.text # "{y}"}]
  /\ changes = 0
  /\ cacheEtag = [k \in ExKeys |-> NoEtag]
  /\ cacheBody = [k \in ExKeys |-> NoBytes]
  /\ disturbed = 0
  /\ epc = "idle"
  /\ call = NoCall
  /\ stack = << >>
  /\ resp = NoResponse
  /\ outcomes = << >>
  /\ netlog = << >>
  /\ events = 0
  /\ clock = 0
  /\ budget = [calls |-> MaxCalls, events |-> MaxEvents]
  /\ LimIdle
  /\ KeyIdle
  /\ PagerIdle
  /\ WalkIdle
  /\ MoreIdle

Top     == stack[Len(stack)]
CallKey == CacheKeyOf(ExRequest(call.url))

\* the call ends: the value or the exception reaches the caller of _api_call
Finish(out) ==
  /\ outcomes' = Append(outcomes, out)
  /\ stack' = << >>
  /\ resp' = NoResponse
  /\ epc' = "idle"

\* return await self._internal_call(...): a nested activation
Reissue(frame) ==
  /\ Len(stack) < MaxDepth
  /\ stack' = Append(stack, frame)
  /\ resp' = NoResponse
  /\ epc' = "prep"
  /\ UNCHANGED outcomes

\* variant of ApiCall: the authentication check is missing
ApiCallUnchecked(url, retries, check_202) ==
  /\ epc = "idle"
  /\ Len(outcomes) < budget.calls
  /\ check_202 \/ retries = NotGiven
  /\ call' = [url |-> url, retries |-> retries, check_202 |-> check_202,
                     if_none_match |-> NoEtag]
  /\ stack' = << Frame(PopRetries(retries), check_202, FALSE) >>
  /\ epc' = "prep"
  /\ UNCHANGED << outcomes, resp >>
  /\ UNCHANGED << notExVars, clock, session, flow, user_id, apiCalls, server, changes, cacheEtag,
                  cacheBody, disturbed, netlog, events >>

\* _api_call(method, url, ..., retries=, check_202=): raises SpotifyAuthException
\* when not self.is_authenticated, else enters _internal_call(method, url,
\* payload, kwargs, headers, retries, check_202)
ApiCall(url, retries, check_202) ==
  /\ epc = "idle"
  /\ Len(outcomes) < budget.calls
  /\ check_202 \/ retries = NotGiven   \* no caller passes retries without check_202
  /\ IF ~session.authorized
       THEN /\ Finish(Raised("SpotifyAuthException"))
            /\ UNCHANGED call
       ELSE /\ call' = [url |-> url, retries |-> retries, check_202 |-> check_202,
                     if_none_match |-> NoEtag]
            /\ stack' = << Frame(PopRetries(retries), check_202, FALSE) >>
            /\ epc' = "prep"
            /\ UNCHANGED << outcomes, resp >>
  /\ UNCHANGED << notExVars, clock, session, flow, user_id, apiCalls, server, changes, cacheEtag,
                  cacheBody, disturbed, netlog, events >>

\* _get_cache_header: etag = await self.redis.get(etag_key); if etag:
\* {"If-None-Match": etag}, merged into the headers of the request
\* variant of CacheHeader: the stored validator is not sent
CacheHeaderNever(key) == NoEtag

CacheHeader(key) == cacheEtag[key]

\* _get_request_args: headers = {"Content-Type": ..., **cache header, **(headers
\* or {})}: a header of the caller replaces the one made from the cache
RequestHeader(key) ==
  IF call.if_none_match # NoEtag THEN call.if_none_match ELSE CacheHeader(key)

\* _internal_call up to the request: cache key and request arguments
Prepare ==
  /\ epc = "prep"
  /\ stack' = [stack EXCEPT ![Len(stack)].if_none_match = RequestHeader(CallKey)]
  /\ epc' = "request"
  /\ UNCHANGED << notExVars, clock, session, flow, user_id, apiCalls, server, changes, cacheEtag,
                  cacheBody, disturbed, call, resp, outcomes, netlog, events >>

Statuses   == {200, 202, 300, 304, 403, 404, 429, 503}
\* the Retry-After header of an answer: absent, or a number of seconds
RetryAfters == {<< >>, << 2 >>}
AllAnswers == [status : Statuses, etag : Etags \cup {NoEtag}, text : Texts,
               retry_after : RetryAfters]

\* the answers the server can give to the request
Answers ==
  LET r == server[call.url] IN
    {IF Top.if_none_match # NoEtag /\ Top.if_none_match = r.etag
       THEN [status |-> 304, etag |-> r.etag, text |-> "", retry_after |-> << >>]
       ELSE [status |-> 200, etag |-> r.etag, text |-> r.text, retry_after |-> << >>]}
    \cup (IF events < budget.events
            THEN {[status |-> 429, etag |-> NoEtag, text |-> "", retry_after |-> << 2 >>],
                  [status |-> 503, etag |-> NoEtag, text |-> "", retry_after |-> << >>],
                  [status |-> 202, etag |-> NoEtag, text |-> "", retry_after |-> << >>]}
            ELSE {})
    \cup {[status |-> 300, etag |-> NoEtag, text |-> "{x}", retry_after |-> << >>],
          [status |-> 403, etag |-> NoEtag, text |-> "{x}", retry_after |-> << >>],
          [status |-> 404, etag |-> NoEtag, text |-> "{x}", retry_after |-> << >>]}

\* one request as the log keeps it: the call it belongs to, the validator it
\* carried, the answer, and the environment's counters when it was sent
Sent(answer, exc) ==
  [call |-> Len(outcomes) + 1, if_none_match |-> Top.if_none_match,
   status |-> answer.status, etag |-> answer.etag, text |-> answer.text,
   retry_after |-> answer.retry_after, exc |-> exc,
   changes |-> changes, disturbed |-> disturbed, clock |-> clock]

\* a request that ended in an exception of the session instead of an answer
NoAnswer == [status |-> 0, etag |-> NoEtag, text |-> "", retry_after |-> << >>]

\* an exception leaves the body of _internal_call: the retry decorator of each
\* activation, innermost first, runs its body again when the exception is
\* retryable and the activation has attempts left, else re-raises it
Retryable(e) == e = "ClientError"

Throw(e) ==
  IF Retryable(e) /\ \E i \in 1..Len(stack) : stack[i].attempt < MaxAttempts
    THEN LET i == CHOOSE k \in 1..Len(stack) :
                    /\ stack[k].attempt < MaxAttempts
                    /\ \A j \in (k + 1)..Len(stack) : stack[j].attempt >= MaxAttempts
         IN /\ stack' = [SubSeq(stack, 1, i) EXCEPT ![i].attempt = @ + 1]
            /\ resp' = NoResponse
            /\ epc' = "prep"
            /\ UNCHANGED outcomes
    ELSE Finish(Raised(e))

\* variant of RequestTokenExpired: the flow is not looked at
RequestTokenExpiredAnyFlow ==
  /\ epc \in {"request", "request2"}
  /\ events < budget.events
  /\ events' = events + 1
  /\ IF epc = "request"
       THEN /\ session' = [session EXCEPT !.token = @ + 1]
            /\ epc' = "request2"
            /\ UNCHANGED << stack, resp, outcomes >>
       ELSE /\ Throw("TokenExpiredError")
            /\ UNCHANGED session
  /\ netlog' = Append(netlog, Sent(NoAnswer, "TokenExpiredError"))
  /\ UNCHANGED << notExVars, clock, flow, user_id, apiCalls, server, changes, cacheEtag,
                  cacheBody, disturbed, call >>

\* session._request raises TokenExpiredError: re-raised unless the flow is
\* client credentials; else the client authenticates again and sends the
\* request a second time, outside the try
RequestTokenExpired ==
  /\ epc \in {"request", "request2"}
  /\ events < budget.events
  /\ events' = events + 1
  /\ IF epc = "request" /\ flow = "client_credentials"
       THEN /\ session' = [session EXCEPT !.token = @ + 1]
            /\ epc' = "request2"
            /\ UNCHANGED << stack, resp, outcomes >>
       ELSE /\ Throw("TokenExpiredError")
            /\ UNCHANGED session
  /\ netlog' = Append(netlog, Sent(NoAnswer, "TokenExpiredError"))
  /\ UNCHANGED << notExVars, clock, flow, user_id, apiCalls, server, changes, cacheEtag,
                  cacheBody, disturbed, call >>

\* session._request raises a transport error (ClientError, ClientConnectionError)
RequestClientError ==
  /\ epc \in {"request", "request2"}
  /\ events < budget.events
  /\ events' = events + 1
  /\ Throw("ClientError")
  /\ netlog' = Append(netlog, Sent(NoAnswer, "ClientError"))
  /\ UNCHANGED << notExVars, clock, session, flow, user_id, apiCalls, server, changes,
                  cacheEtag, cacheBody, disturbed, call >>

\* req = await self.session._request(method, url, **request_args)
Request(answer) ==
  /\ epc \in {"request", "request2"}
  /\ answer \in Answers
  /\ resp' = answer
  /\ netlog' = Append(netlog, Sent(answer, "-"))
  /\ events' = IF answer.status \in {429, 503, 202} THEN events + 1 ELSE events
  /\ epc' = "response"
  /\ UNCHANGED << notExVars, clock, session, flow, user_id, apiCalls, server, changes, cacheEtag,
                  cacheBody, disturbed, call, stack, outcomes >>

\* variant of FetchResponseFromCache: the stored validator outlives the body
FetchResponseFromCacheKeepEtag ==
  LET results == MsgpackLoadsOrNone(cacheBody[CallKey]) IN
    IF Falsy(results)
      THEN /\ cacheBody' = [cacheBody EXCEPT ![CallKey] = NoBytes]
           /\ UNCHANGED cacheEtag
           /\ Reissue(Frame(DefaultRetries, FALSE, FALSE))
      ELSE /\ UNCHANGED << cacheEtag, cacheBody >>
           /\ Finish(Returned(results))

\* _fetch_response_from_cache: an unreadable or falsy cached body deletes both
\* sub-entries and re-issues the request; else both TTLs are refreshed and
\* the cached value is returned
FetchResponseFromCache ==
  LET results == MsgpackLoadsOrNone(cacheBody[CallKey]) IN
    IF Falsy(results)
      THEN /\ cacheEtag' = [cacheEtag EXCEPT ![CallKey] = NoEtag]
           /\ cacheBody' = [cacheBody EXCEPT ![CallKey] = NoBytes]
           /\ Reissue(Frame(DefaultRetries, FALSE, FALSE))
      ELSE /\ UNCHANGED << cacheEtag, cacheBody >>
           /\ Finish(Returned(results))

\* variant of CacheResponse: the body is stored without its validator
CacheResponseNoEtag(etag, results) ==
  /\ cacheBody' = [cacheBody EXCEPT ![CallKey] = MsgpackDumps(results)]
  /\ UNCHANGED cacheEtag

\* _cache_response(etag, results, cache_key): nothing without an etag, else
\* both sub-entries are set in one MULTI/EXEC
CacheResponse(etag, results) ==
  IF etag = NoEtag
    THEN UNCHANGED << cacheEtag, cacheBody >>
    ELSE /\ cacheEtag' = [cacheEtag EXCEPT ![CallKey] = etag]
         /\ cacheBody' = [cacheBody EXCEPT ![CallKey] = MsgpackDumps(results)]

\* variant of RetryAfter: the header is not read
RetryAfterIgnored(response) == 0

\* int(response.headers.get("Retry-After", 0))
RetryAfter(response) ==
  IF response.retry_after = << >> THEN 0 ELSE response.retry_after[1]

\* _check_response: the exception raise_for_status leads to, or "-"
CheckResponse(code) ==
  IF code < 400 THEN "-"
  ELSE IF code = 429 \/ (code >= 500 /\ code < 600) THEN "SpotifyRateLimitException"
  ELSE IF code = 403 THEN "SpotifyForbiddenException"
  ELSE "SpotifyException"

\* the activation a rate-limit retry starts: self._internal_call(method, url,
\* payload, params, headers, retries), check_202 and increment_api_calls left
\* at their defaults
RateLimitFrame(frame) == Frame(frame.retries, FALSE, FALSE)

\* the activation a device-busy retry starts: self._internal_call(method, url,
\* payload, params, headers, retries=retries - 1), check_202 left at its default
DeviceBusyFrame(frame) == Frame(frame.retries - 1, FALSE, FALSE)

\* _increment_api_call_count under @db_session: the update is done, or the
\* lookup of the user fails (caught and logged), or the commit at the exit of
\* the session fails (outside the try)
DbOutcomes == {"ok", "no_user", "commit_error"}

\* the exception the counter update lets through, or "-"
CountApiCall(db) == IF db = "commit_error" THEN "CommitException" ELSE "-"

\* the body of `async with req as resp:` in _internal_call
HandleResponse ==
  /\ epc = "response"
  /\ \E db \in DbOutcomes :
       /\ db = "ok" \/ (user_id /\ Top.increment_api_calls)
       /\ apiCalls' = IF user_id /\ Top.increment_api_calls /\ db = "ok"
                        THEN apiCalls + 1 ELSE apiCalls
       /\ IF user_id /\ Top.increment_api_calls /\ CountApiCall(db) # "-"
            THEN /\ Throw(CountApiCall(db))
                 /\ UNCHANGED << cacheEtag, cacheBody, clock >>
          ELSE IF resp.status = 304
            THEN /\ FetchResponseFromCache
                 /\ UNCHANGED clock
          ELSE IF Top.check_202 /\ resp.status = 202
            THEN /\ IF Top.retries > 0
                      THEN /\ clock' = clock + DeviceBusyDelay
                           /\ Reissue(DeviceBusyFrame(Top))
                      ELSE /\ Finish(Raised("SpotifyDeviceUnavailableException"))
                           /\ UNCHANGED clock
                 /\ UNCHANGED << cacheEtag, cacheBody >>
          ELSE IF CheckResponse(resp.status) = "SpotifyRateLimitException"
            THEN /\ clock' = clock + RetryAfter(resp)
                 /\ Reissue(RateLimitFrame(Top))
                 /\ UNCHANGED << cacheEtag, cacheBody >>
          ELSE IF CheckResponse(resp.status) # "-"
            THEN /\ Finish(Raised(CheckResponse(resp.status)))
                 /\ UNCHANGED << cacheEtag, cacheBody, clock >>
          ELSE IF resp.text # "" /\ resp.text # "null"
            THEN /\ CacheResponse(resp.etag, JsonLoads(resp.text))
                 /\ Finish(Returned(JsonLoads(resp.text)))
                 /\ UNCHANGED clock
            ELSE /\ Finish(ReturnedNone)
                 /\ UNCHANGED << cacheEtag, cacheBody, clock >>
  /\ UNCHANGED << notExVars, session, flow, user_id, server, changes, disturbed, call,
                  netlog, events >>

\* ---- the environment of the client
\* the session gains or loses its token (is_authenticated changes)
SessionChange ==
  /\ epc = "idle"
  /\ session' = [session EXCEPT !.authorized = ~@]
  /\ UNCHANGED << notExVars, clock, flow, user_id, apiCalls, server, changes, cacheEtag, cacheBody,
                  disturbed, epc, call, stack, resp, outcomes, netlog, events >>

\* the remote resource changes: new representation, new validator
ServerChange(url) ==
  /\ events < budget.events
  /\ events' = events + 1
  /\ changes' = changes + 1
  /\ server' = [server EXCEPT ![url] =
                  [etag |-> IF @.etag = NoEtag THEN NoEtag ELSE "e2", text |-> "{y}"]]
  /\ UNCHANGED << notExVars, clock, session, flow, user_id, apiCalls, cacheEtag, cacheBody,
                  disturbed, epc, call, stack, resp, outcomes, netlog >>

\* the TTL of an entry runs out: both sub-entries were set with the same TTL
CacheExpire(key) ==
  /\ events < budget.events
  /\ cacheEtag[key] # NoEtag \/ cacheBody[key] # NoBytes
  /\ events' = events + 1
  /\ disturbed' = disturbed + 1
  /\ cacheEtag' = [cacheEtag EXCEPT ![key] = NoEtag]
  /\ cacheBody' = [cacheBody EXCEPT ![key] = NoBytes]
  /\ UNCHANGED << notExVars, clock, session, flow, user_id, apiCalls, server, changes, epc, call,
                  stack, resp, outcomes, netlog >>

\* the bytes under a response key are lost or damaged in the store
CacheCorrupt(key, bytes) ==
  /\ events < budget.events
  /\ cacheBody[key] \notin {NoBytes, Garbage}
  /\ bytes \in {NoBytes, Garbage}
  /\ events' = events + 1
  /\ disturbed' = disturbed + 1
  /\ cacheBody' = [cacheBody EXCEPT ![key] = bytes]
  /\ UNCHANGED << notExVars, clock, session, flow, user_id, apiCalls, server, changes, cacheEtag,
                  epc, call, stack, resp, outcomes, netlog >>

ExNext ==
  \/ \E url \in ExUrls, retries \in (0..MaxRetries) \cup {NotGiven}, check_202 \in BOOLEAN :
       ApiCall(url, retries, check_202)
  \/ Prepare
  \/ \E answer \in AllAnswers : Request(answer)
  \/ RequestTokenExpired
  \/ RequestClientError
  \/ HandleResponse
  \/ SessionChange
  \/ \E url \in ExUrls : ServerChange(url)
  \/ \E key \in ExKeys : CacheExpire(key)
  \/ \E key \in ExKeys, bytes \in {NoBytes, Garbage} : CacheCorrupt(key, bytes)

ExecutorSpec == ExInit /\ [][ExNext]_vars

\* ---- one call, entered in every way the client offers
\* _api_call(method, url, headers={"If-None-Match": etag}): the caller's own
\* validator; retries and check_202 are not passed
ApiCallWithHeaders(url, etag) ==
  /\ epc = "idle"
  /\ Len(outcomes) < budget.calls
  /\ etag # NoEtag
  /\ IF ~session.authorized
       THEN /\ Finish(Raised("SpotifyAuthException"))
            /\ UNCHANGED call
       ELSE /\ call' = [url |-> url, retries |-> NotGiven, check_202 |-> FALSE,
                        if_none_match |-> etag]
            /\ stack' = << Frame(PopRetries(NotGiven), FALSE, FALSE) >>
            /\ epc' = "prep"
            /\ UNCHANGED << outcomes, resp >>
  /\ UNCHANGED << notExVars, clock, session, flow, user_id, apiCalls, server, changes, cacheEtag,
                  cacheBody, disturbed, netlog, events >>

\* _internal_call(method, url, payload, params, increment_api_calls=True):
\* retries=5 and check_202=False by default, no authentication check
InternalCall(url) ==
  /\ epc = "idle"
  /\ Len(outcomes) < budget.calls
  /\ call' = [url |-> url, retries |-> DefaultRetries, check_202 |-> FALSE,
              if_none_match |-> NoEtag]
  /\ stack' = << Frame(DefaultRetries, FALSE, TRUE) >>
  /\ epc' = "prep"
  /\ UNCHANGED << outcomes, resp >>
  /\ UNCHANGED << notExVars, clock, session, flow, user_id, apiCalls, server, changes, cacheEtag,
                  cacheBody, disturbed, netlog, events >>

\* an authorized client, a remote resource with a validator, an empty cache
\* or the resource in the cache
CallInit ==
  /\ session = [authorized |-> TRUE, token |-> 0]
  /\ flow = "authorization_code"
  /\ user_id = TRUE
  /\ apiCalls = 0
  /\ server = [u \in ExUrls |-> [etag |-> "e1", text |-> "{x}"]]
  /\ changes = 0
  /\ \E cached \in BOOLEAN :
       /\ cacheEtag = [k \in ExKeys |-> IF cached THEN "e1" ELSE NoEtag]
       /\ cacheBody = [k \in ExKeys |->
                         IF cached THEN MsgpackDumps(JsonLoads("{x}")) ELSE NoBytes]
  /\ disturbed = 0
  /\ epc = "idle"
  /\ call = NoCall
  /\ stack = << >>
  /\ resp = NoResponse
  /\ outcomes = << >>
  /\ netlog = << >>
  /\ events = 0
  /\ clock = 0
  /\ budget = [calls |-> 1, events |-> MaxCallEvents]
  /\ LimIdle
  /\ KeyIdle
  /\ PagerIdle
  /\ WalkIdle
  /\ MoreIdle

CallNext ==
  \/ ExNext
  \/ \E url \in ExUrls, etag \in {"e1"} : ApiCallWithHeaders(url, etag)
  \/ \E url \in ExUrls : InternalCall(url)

CallSpec == CallInit /\ [][CallNext]_vars

\* ------------------------------------------------------ executor: claims
Last(q) == q[Len(q)]

\* the requests sent by the k-th call, in order
RequestsOf(k) == SelectSeq(netlog, LAMBDA e : e.call = k)

\* C8: a call of _api_call on a client that is not authenticated ends at
\* once with SpotifyAuthException: no request is sent, and the ETag cache,
\* the usage counter and the session are left as they were.
C8_UnauthenticatedCall ==
  [][(/\ epc = "idle"
      /\ ~session.authorized
      /\ << epc, call, stack, outcomes >>' # << epc, call, stack, outcomes >>)
     => (/\ outcomes' = Append(outcomes, Raised("SpotifyAuthException"))
         /\ epc' = "idle"
         /\ netlog' = netlog
         /\ cacheEtag' = cacheEtag
         /\ cacheBody' = cacheBody
         /\ apiCalls' = apiCalls
         /\ session' = session)]_vars

C8_Witness ==
  /\ Len(outcomes) = 2
  /\ outcomes[1].kind = "value"
  /\ outcomes[2] = Raised("SpotifyAuthException")
  /\ Len(netlog) = 1
  /\ \E k \in ExKeys : cacheEtag[k] # NoEtag /\ cacheBody[k] # NoBytes

\* C9: of two successive calls for the same url and params, when the first
\* ended with a 2xx answer carrying an etag and a non-empty, non-null body,
\* the resource has not changed and the cache entry has neither expired nor
\* been damaged since, and the server answers the second call's requests from
\* the resource, then the second call sends the stored validator, gets 304
\* only (no second transfer of the body) and returns the first call's value.
C9_ConditionalFetchIdempotent ==
  \A k \in 1..(Len(outcomes) - 1) :
    LET first == RequestsOf(k)
        second == RequestsOf(k + 1)
    IN (/\ first # << >>
        /\ second # << >>
        /\ outcomes[k].kind = "value"
        /\ Last(first).status = 200
        /\ Last(first).etag # NoEtag
        /\ Last(first).text \notin {"", "null"}
        /\ Last(first).changes = changes
        /\ Last(first).disturbed = disturbed
        /\ \A i \in 1..Len(second) : second[i].status \in {200, 304})
       => (/\ second[1].if_none_match = Last(first).etag
           /\ \A i \in 1..Len(second) : second[i].status = 304
           /\ outcomes[k + 1] = outcomes[k])

\* the same with a body that decodes to a non-empty value
ConditionalFetchIdempotentTruthy ==
  \A k \in 1..(Len(outcomes) - 1) :
    LET first == RequestsOf(k)
        second == RequestsOf(k + 1)
    IN (/\ first # << >>
        /\ second # << >>
        /\ outcomes[k].kind = "value"
        /\ Last(first).status = 200
        /\ Last(first).etag # NoEtag
        /\ ~Falsy(JsonLoads(Last(first).text))
        /\ Last(first).changes = changes
        /\ Last(first).disturbed = disturbed
        /\ \A i \in 1..Len(second) : second[i].status \in {200, 304})
       => (/\ Len(second) = 1
           /\ second[1].if_none_match = Last(first).etag
           /\ second[1].status = 304
           /\ outcomes[k + 1] = outcomes[k])

\* ---- rate limiting
RateLimited(e) == e.status = 429 \/ (e.status >= 500 /\ e.status < 600)

\* what a call returns for a 2xx answer with this body text
Decoded(text) ==
  IF text # "" /\ text # "null" THEN Returned(JsonLoads(text)) ELSE ReturnedNone

RECURSIVE SumRetryAfter(_)
SumRetryAfter(q) ==
  IF q = << >> THEN 0
  ELSE (IF Head(q).retry_after = << >> THEN 0 ELSE Head(q).retry_after[1])
       + SumRetryAfter(Tail(q))

\* the calls made so far, the one in progress included
CallsSoFar == 1..(Len(outcomes) + (IF epc = "idle" THEN 0 ELSE 1))

\* C11: a 429 or 5xx answer is never surfaced as an error: no call ends on
\* one or raises the rate-limit exception; after each such answer the client
\* sleeps the answer's Retry-After seconds (0 without the header) before the
\* next request of the call; and a call answered 429 k times and then 200
\* returns what the 200 decodes to, having slept at least the sum of the k
\* Retry-After values.
C11_RateLimitRecovery ==
  /\ \A k \in 1..Len(outcomes) :
        /\ outcomes[k] # Raised("SpotifyRateLimitException")
        /\ RequestsOf(k) # << >> => ~RateLimited(Last(RequestsOf(k)))
  /\ \A k \in CallsSoFar :
        LET reqs == RequestsOf(k) IN
          \A i \in 1..(Len(reqs) - 1) :
            RateLimited(reqs[i]) =>
              reqs[i + 1].clock >= reqs[i].clock
                + (IF reqs[i].retry_after = << >> THEN 0 ELSE reqs[i].retry_after[1])
  /\ \A k \in 1..Len(outcomes) :
        LET reqs == RequestsOf(k) IN
          (/\ Len(reqs) >= 2
           /\ \A i \in 1..(Len(reqs) - 1) : reqs[i].status = 429
           /\ Last(reqs).status = 200)
          => /\ outcomes[k] = Decoded(Last(reqs).text)
             /\ Last(reqs).clock - reqs[1].clock
                  >= SumRetryAfter(SubSeq(reqs, 1, Len(reqs) - 1))

C11_Witness ==
  \E k \in 1..Len(outcomes) :
    LET reqs == RequestsOf(k) IN
      /\ Len(reqs) = 3
      /\ reqs[1].status = 429 /\ reqs[1].retry_after = << 2 >>
      /\ reqs[2].status = 429 /\ reqs[2].retry_after = << 2 >>
      /\ reqs[3].status = 200
      /\ outcomes[k].kind = "value"
      /\ reqs[3].clock - reqs[1].clock = 4

\* ---- device busy
\* the last call has ended and sent requests: `call` holds its arguments
LastCallEnded ==
  /\ epc = "idle"
  /\ Len(outcomes) > 0
  /\ RequestsOf(Len(outcomes)) # << >>

\* C12: a call with check_202 set and retry count r, all of whose requests
\* are answered 202, makes exactly r + 1 attempts, 5 seconds apart, and
\* then fails with SpotifyDeviceUnavailableException.
C12_DeviceBusyExhaustion ==
  LET reqs == RequestsOf(Len(outcomes)) IN
    (/\ LastCallEnded
     /\ call.check_202
     /\ \A i \in 1..Len(reqs) : reqs[i].status = 202)
    => /\ Len(reqs) = PopRetries(call.retries) + 1
       /\ \A i \in 1..(Len(reqs) - 1) : reqs[i + 1].clock - reqs[i].clock = DeviceBusyDelay
       /\ Last(outcomes) = Raised("SpotifyDeviceUnavailableException")

\* C13: a call with check_202 set and no retry count, whose first answer is
\* 202, is retried, and surfaces SpotifyDeviceUnavailableException only
\* after the default of 5 retries.
C13_DefaultRetryCount ==
  LET reqs == RequestsOf(Len(outcomes)) IN
    (/\ LastCallEnded
     /\ call.check_202
     /\ call.retries = NotGiven
     /\ reqs[1].status = 202)
    => /\ Len(reqs) >= 2
       /\ Last(outcomes) = Raised("SpotifyDeviceUnavailableException")
            => Len(reqs) = DefaultRetries + 1

\* ---- expired credentials
\* this step is a request that raises TokenExpiredError
TokenExpiredStep ==
  /\ Len(netlog') = Len(netlog) + 1
  /\ netlog'[Len(netlog')].exc = "TokenExpiredError"

\* the request before it, of the same call, raised TokenExpiredError too
ExpiredJustBefore ==
  /\ netlog # << >>
  /\ Last(netlog).exc = "TokenExpiredError"
  /\ Last(netlog).call = Len(outcomes) + 1

\* C14: when a request raises TokenExpiredError, under the client-credentials
\* flow the client fetches one new token and sends the same request once
\* more, and an expiry of that second request reaches the caller; under the
\* authorization-code flow the error reaches the caller at once, with no new
\* token and no second request.
C14_ExpiredCredentials ==
  [][TokenExpiredStep =>
       IF flow = "client_credentials" /\ ~ExpiredJustBefore
         THEN /\ session'.token = session.token + 1
              /\ outcomes' = outcomes
              /\ stack' = stack
              /\ epc' = "request2"
         ELSE /\ session' = session
              /\ outcomes' = Append(outcomes, Raised("TokenExpiredError"))
              /\ epc' = "idle"]_vars

C14_Witness ==
  /\ flow = "client_credentials"
  /\ session.token = 1
  /\ Len(outcomes) = 1
  /\ outcomes[1].kind = "value"
  /\ Len(netlog) = 2
  /\ netlog[1].exc = "TokenExpiredError"
  /\ netlog[2].status = 200
  /\ netlog[2].if_none_match = netlog[1].if_none_match

\* ---- cache corruption
\* a 304 is being handled and the bytes under the response key are missing
\* or do not decode
CorruptHit ==
  /\ epc = "response"
  /\ resp.status = 304
  /\ cacheBody[CallKey].fmt # "msgpack"

\* C15: on a 304 whose cached body is missing or undecodable the client
\* deletes both sub-entries of the key and re-issues the request; the
\* request that follows a 304 within a call carries no validator; and the
\* call returns what the re-issued request gives, never an error of the cache.
C15_CorruptionRecovery ==
  /\ [][(CorruptHit /\ epc' # epc)
          => /\ cacheEtag'[CallKey] = NoEtag
             /\ cacheBody'[CallKey] = NoBytes
             /\ outcomes' = outcomes
             /\ epc' = "prep"]_vars
  /\ [](\A k \in CallsSoFar :
          LET reqs == RequestsOf(k) IN
            \A i \in 1..(Len(reqs) - 1) :
              reqs[i].status = 304 =>
                /\ reqs[i + 1].if_none_match = NoEtag
                /\ (k <= Len(outcomes) /\ Last(reqs).status = 200)
                     => outcomes[k] = Decoded(Last(reqs).text))

C15_Witness ==
  /\ disturbed = 1
  /\ Len(outcomes) = 2
  /\ Len(RequestsOf(2)) = 2
  /\ RequestsOf(2)[1].status = 304
  /\ RequestsOf(2)[1].if_none_match = "e1"
  /\ RequestsOf(2)[2].status = 200
  /\ RequestsOf(2)[2].if_none_match = NoEtag
  /\ outcomes[2] = outcomes[1]
  /\ outcomes[2].kind = "value"
  /\ ~Falsy(outcomes[2].value)

\* ---- classification of responses
Is2xx(code) == code >= 200 /\ code < 300

\* C20: a call that ends on an answer other than a 304 or a device-busy 202
\* ends with a value or the empty result exactly when the status is 2xx,
\* with SpotifyForbiddenException on 403, with SpotifyException on every
\* other non-2xx status, and never on a 429 or 5xx.
C20_Classification ==
  \A k \in 1..Len(outcomes) :
    LET reqs == RequestsOf(k) IN
      (/\ reqs # << >>
       /\ Last(reqs).exc = "-"
       /\ Last(reqs).status # 304
       /\ outcomes[k] # Raised("SpotifyDeviceUnavailableException"))
      => LET code == Last(reqs).status IN
           /\ ~RateLimited(Last(reqs))
           /\ Is2xx(code) <=> outcomes[k].kind \in {"value", "none"}
           /\ code = 403 => outcomes[k] = Raised("SpotifyForbiddenException")
           /\ (~Is2xx(code) /\ code # 403) => outcomes[k] = Raised("SpotifyException")

\* ---------------------------------------------------------- pager: actions
PagerInit ==
  /\ page \in Pages
  /\ pageLimit \in CallerLimits
  /\ params_list = << >>
  /\ ppc = "page"
  /\ LimIdle
  /\ KeyIdle
  /\ ExIdle
  /\ WalkIdle
  /\ MoreIdle

\* params_list = self.result.get_next_params_list(limit)
GetNextParamsList ==
  /\ ppc = "page"
  /\ params_list' = get_next_params_list(page, pageLimit)
  /\ ppc' = "derived"
  /\ UNCHANGED << notPagerVars, page, pageLimit >>

PagerNext == GetNextParamsList

PagerSpec == PagerInit /\ [][PagerNext]_vars

\* ----------------------------------------------------------- pager: claims
\* the offset and limit of the page's own request, as its href carries them
OwnOffset == Pop(ParseQs(page.href.query), "offset", DefaultOffset)
OwnLimit  == Pop(ParseQs(page.href.query), "limit", DefaultLimit)

\* the query params of the page's own request other than limit and offset
OtherParams ==
  {page.href.query[i] : i \in {j \in DOMAIN page.href.query :
                                   page.href.query[j][1] \notin {"limit", "offset"}}}

\* C16: for a page with a next link, own offset o, own limit l, total T and
\* page size p, the derived offsets are exactly o+l, o+l+p, ... below T, in
\* increasing order, each with limit p and the other params unchanged;
\* nothing is derived when next is null or o+l >= T.
C16_PaginationOffsets ==
  ppc = "derived" =>
    LET o == OwnOffset
        l == OwnLimit
        p == PageSize(pageLimit)
        T == page.total
        n == Len(params_list)
    IN /\ (~page.next \/ o + l >= T) => n = 0
       /\ (page.next /\ page.href.present /\ o + l < T) =>
            /\ n >= 1
            /\ o + l + (n - 1) * p < T
            /\ o + l + n * p >= T
       /\ \A i \in 1..n :
            /\ params_list[i].offset = o + l + (i - 1) * p
            /\ params_list[i].limit = p
            /\ {<< k, params_list[i].params[k] >> : k \in DOMAIN params_list[i].params}
                 = OtherParams

C16_Witness ==
  /\ ppc = "derived"
  /\ page.total = 120
  /\ OwnOffset = 0
  /\ OwnLimit = 50
  /\ PageSize(pageLimit) = 50
  /\ OtherParams # {}
  /\ Len(params_list) = 2
  /\ params_list[1].offset = 50
  /\ params_list[2].offset = 100

\* C17: no derived page request carries a limit above 50, whatever page
\* size the caller passes, and 50 is used when the caller passes none.
C17_PageSizeCap ==
  \A i \in 1..Len(params_list) :
    /\ params_list[i].limit <= DefaultPageSize
    /\ pageLimit = NoLimit => params_list[i].limit = DefaultPageSize

\* --------------------------------------------------------- walker: actions
\* SpotifyResultIterator.__init__: the derived parameter sets, one request
\* per set, and limited_as_completed over the requests (not started yet)
WalkInit ==
  /\ page \in {pg \in Pages :
                 /\ pg.next
                 /\ pg.href.present
                 /\ pg.href.query = << << "offset", 0 >>, << "limit", 50 >> >>
                 /\ \E k \in 0..MaxOps : pg.total = 50 + 10 * k}
  /\ pageLimit = 10
  /\ params_list = get_next_params_list(page, pageLimit)
  /\ ppc = "derived"
  /\ firstItems \in PageShapes
  /\ pageItems \in {pi \in [Ops -> PageShapes] :
                      \A f \in Ops : f > Len(params_list) => pi[f] = << >>}
  /\ result_iterator = PageIter(0)
  /\ taken = 0
  /\ delivered = << >>
  /\ wpc = "next"
  /\ variant = "async"
  /\ limit \in 1..MaxLimit
  /\ nOps = Len(params_list)
  /\ ignore_exceptions = [form |-> "bool", val |-> FALSE]
  /\ status = [f \in Ops |-> "unstarted"]
  /\ startCount = [f \in Ops |-> 0]
  /\ srcPos = 0
  /\ futures = << >>
  /\ lpc = "start"
  /\ picked = 0
  /\ pickIdx = 0
  /\ pickSrcPos = 0
  /\ yielded = << >>
  /\ raised = NoError
  /\ doneOrder = << >>
  /\ callerCancelled = {}
  /\ KeyIdle
  /\ ExIdle
  /\ MoreIdle

\* item = next(self.result_iterator, None); if item is not None: return item
ReadItem ==
  IF result_iterator # << >> /\ Head(result_iterator).val # None
    THEN /\ delivered' = Append(delivered, Head(result_iterator))
         /\ result_iterator' = Tail(result_iterator)
         /\ wpc' = "next"
    ELSE /\ result_iterator' = IF result_iterator = << >> THEN << >>
                                ELSE Tail(result_iterator)
         /\ wpc' = "await"
         /\ UNCHANGED delivered

\* __anext__ up to the await of the next page
WAnext ==
  /\ wpc = "next"
  /\ ReadItem
  /\ UNCHANGED << notWalkVars, firstItems, pageItems, taken >>

\* self.result_iterator = iter(await self.responses.__anext__()), then
\* __anext__ again
WTakePage ==
  /\ wpc = "await"
  /\ lpc = "consumer"
  /\ Len(yielded) > taken
  /\ result_iterator' = PageIter(yielded[taken + 1].op)
  /\ taken' = taken + 1
  /\ wpc' = "next"
  /\ UNCHANGED << notWalkVars, firstItems, pageItems, delivered >>

\* self.responses is exhausted: StopAsyncIteration ends the iteration
WEnd ==
  /\ wpc = "await"
  /\ lpc = "done"
  /\ wpc' = "ended"
  /\ UNCHANGED << notWalkVars, firstItems, pageItems, result_iterator, taken, delivered >>

\* the exception of a page's request leaves self.responses.__anext__() and
\* __anext__: the consumer gets it
WRaise ==
  /\ wpc = "await"
  /\ lpc = "raised"
  /\ wpc' = "raised"
  /\ UNCHANGED << notWalkVars, firstItems, pageItems, result_iterator, taken, delivered >>

\* the generator behind self.responses runs while __anext__ awaits it
WalkNext ==
  \/ WAnext
  \/ WTakePage
  \/ WEnd
  \/ WRaise
  \/ (wpc = "await" /\ LStart)
  \/ (wpc = "await" /\ LWhile)
  \/ (wpc = "await" /\ LSleep)
  \/ (wpc = "await" /\ LScan)
  \/ (wpc = "await" /\ LBackfill)
  \/ (wpc = "await" /\ LResult)
  \/ (wpc = "await" /\ Len(yielded) = taken /\ LResume)
  \/ \E f \in Ops, outcome \in {"ok", "K1"} : OpComplete(f, outcome)

WalkerSpec == WalkInit /\ [][WalkNext]_vars

\* ---------------------------------------------------------- walker: claims
\* the items of the initial page and of the first k pages taken, in order
RECURSIVE FlatPages(_)
FlatPages(k) ==
  IF k = 0 THEN PageIter(0) ELSE FlatPages(k - 1) \o PageIter(yielded[k].op)

\* C18: a derived page whose fetch fails is skipped: the walker never
\* raises the page's error to the consumer, and when it has ended the items
\* of every page whose fetch succeeded have been delivered.
C18_FailedPageSkipped ==
  /\ wpc # "raised"
  /\ wpc = "ended" =>
       \A f \in 1..nOps : status[f] = "ok" =>
         \A i \in 1..Len(pageItems[f]) :
           \E j \in 1..Len(delivered) : delivered[j].page = f /\ delivered[j].idx = i

\* C19: the walker delivers the items of the initial page in order, then the
\* items of each page in the order the limiter hands the pages over, each
\* page contiguously and in its own order; no item of a page taken is
\* skipped, whatever its value; and the iteration ends exactly when the
\* limiter is exhausted.
C19_WalkOrder ==
  /\ wpc \in {"next", "await", "ended"} =>
       delivered \o result_iterator = FlatPages(taken)
  /\ wpc = "ended" => (lpc = "done" /\ taken = Len(yielded))

\* the same for pages without null items
WalkOrderNoNulls ==
  (/\ \A i \in 1..Len(firstItems) : firstItems[i] # None
   /\ \A f \in Ops : \A i \in 1..Len(pageItems[f]) : pageItems[f][i] # None)
  => C19_WalkOrder

\* ---- cache entries
\* C21: a 2xx answer without an etag leaves the cache as it was, and a key
\* whose body sub-entry holds bytes the client wrote always has an etag
\* sub-entry too.
C21_NoEntryWithoutEtag ==
  /\ [](\A k \in ExKeys : cacheBody[k].fmt = "msgpack" => cacheEtag[k] # NoEtag)
  /\ [][(/\ epc = "response"
          /\ epc' # epc
          /\ Is2xx(resp.status)
          /\ resp.etag = NoEtag)
         => (cacheEtag' = cacheEtag /\ cacheBody' = cacheBody)]_vars

C21_Witness ==
  /\ Len(outcomes) = 1
  /\ outcomes[1].kind = "value"
  /\ Len(netlog) = 1
  /\ netlog[1].status = 200
  /\ netlog[1].etag = NoEtag
  /\ \A k \in ExKeys : cacheEtag[k] = NoEtag /\ cacheBody[k] = NoBytes

\* ---- retry paths
\* requests of call c answered 304 after which the call sent another request:
\* each is a 304 whose cached body was unusable and that was re-issued
ReissuedAfter304(c) ==
  {i \in 1..Len(netlog) :
     /\ netlog[i].call = c
     /\ netlog[i].status = 304
     /\ \E j \in (i + 1)..Len(netlog) : netlog[j].call = c}

\* C23: after a 304 with an unusable cached body the request is re-issued at
\* most once per call, also when the caller supplied its own If-None-Match.
C23_ReissueOnce ==
  \A c \in CallsSoFar : Cardinality(ReissuedAfter304(c)) <= 1

\* C24: the activation a rate-limit retry starts has the retries, check_202
\* and increment_api_calls of the activation that received the 429/5xx.
C24_SameCallReissued ==
  [][(/\ epc = "response"
      /\ epc' = "prep"
      /\ CheckResponse(resp.status) = "SpotifyRateLimitException"
      /\ Len(stack') = Len(stack) + 1)
     => (/\ Last(stack').retries = Top.retries
         /\ Last(stack').check_202 = Top.check_202
         /\ Last(stack').increment_api_calls = Top.increment_api_calls)]_vars

\* requests of call c that ended in a transport error
TransportFailures(c) ==
  {i \in 1..Len(netlog) : netlog[i].call = c /\ netlog[i].exc = "ClientError"}

\* C25: one call makes at most 3 attempts that fail with a transport error,
\* and the error reaches the caller only after 3 such attempts.
C25_AttemptBudget ==
  /\ \A c \in CallsSoFar : Cardinality(TransportFailures(c)) <= MaxAttempts
  /\ \A c \in 1..Len(outcomes) :
       outcomes[c].exc = "ClientError" => Cardinality(TransportFailures(c)) = MaxAttempts

\* C26: a failure of the usage counter's update never makes the call fail.
C26_CounterBestEffort ==
  \A c \in 1..Len(outcomes) : outcomes[c].exc # "CommitException"

\* ---- exception policy
\* the failure's kind matches the policy: True matches all, a tuple or a
\* single class matches its kinds, False matches none
PolicyMatches(exc, pol) ==
  \/ (pol.form = "bool" /\ pol.val = TRUE)
  \/ (pol.form = "tuple" /\ exc \in pol.kinds)
  \/ (pol.form = "class" /\ exc = pol.kind)

\* C27: the asynch limiter ignores a failure exactly when its kind matches the
\* policy (True, a tuple of kinds, a single kind, or False).
C27_IgnoreExactlyMatching ==
  variant = "asynch" =>
    /\ lpc = "raised" => ~PolicyMatches(raised.original_exc, ignore_exceptions)
    /\ \A i \in 1..Len(yielded) :
         status[yielded[i].op] \in Kinds =>
           PolicyMatches(status[yielded[i].op], ignore_exceptions)

\* ------------------------------------------- concurrent calls: actions
notConcVars == << limVars, keyVars, exVars, pagerVars, walkVars, thrVars, lruVars >>

ConcInit ==
  /\ rEtag = Absent
  /\ rBody = Absent
  /\ origin \in {[etag |-> "e1", text |-> "{x}"], [etag |-> "e1", text |-> "{}"]}
  /\ sent = 0
  /\ ticks = 0
  /\ tpc = [t \in Tasks |-> "idle"]
  /\ tInm = [t \in Tasks |-> NoEtag]
  /\ tResp = [t \in Tasks |-> NoAnswerYet]
  /\ tGot = [t \in Tasks |-> "nil"]
  /\ LimIdle
  /\ KeyIdle
  /\ ExIdle
  /\ PagerIdle
  /\ WalkIdle
  /\ ThrIdle
  /\ LruIdle

\* a call of _internal_call begins
TStart(t) ==
  /\ tpc[t] \in {"idle", "done"}
  /\ sent < MaxRequests
  /\ tpc' = [tpc EXCEPT ![t] = "header"]
  /\ tInm' = [tInm EXCEPT ![t] = NoEtag]
  /\ tResp' = [tResp EXCEPT ![t] = NoAnswerYet]
  /\ tGot' = [tGot EXCEPT ![t] = "nil"]
  /\ UNCHANGED << notConcVars, rEtag, rBody, origin, sent, ticks >>

\* etag = await self.redis.get(etag_key): the header of the request
TGetCacheHeader(t) ==
  /\ tpc[t] = "header"
  /\ tInm' = [tInm EXCEPT ![t] = IF rEtag = Absent THEN NoEtag ELSE rEtag.val]
  /\ tpc' = [tpc EXCEPT ![t] = "request"]
  /\ UNCHANGED << notConcVars, rEtag, rBody, origin, sent, ticks, tResp, tGot >>

\* req = await self.session._request(...): 304 when the validator is current
TRequest(t) ==
  /\ tpc[t] = "request"
  /\ sent < MaxRequests
  /\ sent' = sent + 1
  /\ tResp' = [tResp EXCEPT ![t] =
                 IF tInm[t] # NoEtag /\ tInm[t] = origin.etag
                   THEN [status |-> 304, etag |-> origin.etag, text |-> "", id |-> sent + 1]
                   ELSE [status |-> 200, etag |-> origin.etag, text |-> origin.text,
                         id |-> sent + 1]]
  /\ tpc' = [tpc EXCEPT ![t] = "response"]
  /\ UNCHANGED << notConcVars, rEtag, rBody, origin, ticks, tInm, tGot >>

\* a 2xx answer with a body: _cache_response sets both keys in one MULTI/EXEC
TCacheResponse(t) ==
  /\ tpc[t] = "response"
  /\ tResp[t].status = 200
  /\ IF tResp[t].text # "" /\ tResp[t].text # "null" /\ tResp[t].etag # NoEtag
       THEN /\ rEtag' = Entry(tResp[t].etag, tResp[t].id)
            /\ rBody' = Entry(tResp[t].text, tResp[t].id)
       ELSE UNCHANGED << rEtag, rBody >>
  /\ tpc' = [tpc EXCEPT ![t] = "done"]
  /\ UNCHANGED << notConcVars, origin, sent, ticks, tInm, tResp, tGot >>

\* a 304: response = await self.redis.get(response_key)
TFetchGet(t) ==
  /\ tpc[t] = "response"
  /\ tResp[t].status = 304
  /\ tGot' = [tGot EXCEPT ![t] = rBody.val]
  /\ tpc' = [tpc EXCEPT ![t] = "exec"]
  /\ UNCHANGED << notConcVars, rEtag, rBody, origin, sent, ticks, tInm, tResp >>

\* await tr.execute(): both keys deleted and the request issued again when the
\* body read is invalid, else both keys' TTL set again
TFetchExec(t) ==
  /\ tpc[t] = "exec"
  /\ IF Falsy(JsonLoads(tGot[t]))
       THEN /\ rEtag' = Absent
            /\ rBody' = Absent
            /\ tpc' = [tpc EXCEPT ![t] = "header"]
       ELSE /\ rEtag' = Expire(rEtag)
            /\ rBody' = Expire(rBody)
            /\ tpc' = [tpc EXCEPT ![t] = "done"]
  /\ UNCHANGED << notConcVars, origin, sent, ticks, tInm, tResp, tGot >>

\* time passes
Tick ==
  /\ ticks < MaxTicks
  /\ ticks' = ticks + 1
  /\ rEtag' = Aged(rEtag)
  /\ rBody' = Aged(rBody)
  /\ UNCHANGED << notConcVars, origin, sent, tpc, tInm, tResp, tGot >>

\* the remote resource changes: new representation, new validator
OriginChange ==
  /\ origin.etag = "e1"
  /\ origin' = [etag |-> "e2", text |-> "{y}"]
  /\ UNCHANGED << notConcVars, rEtag, rBody, sent, ticks, tpc, tInm, tResp, tGot >>

ConcNext ==
  \/ \E t \in Tasks : TStart(t)
  \/ \E t \in Tasks : TGetCacheHeader(t)
  \/ \E t \in Tasks : TRequest(t)
  \/ \E t \in Tasks : TCacheResponse(t)
  \/ \E t \in Tasks : TFetchGet(t)
  \/ \E t \in Tasks : TFetchExec(t)
  \/ Tick
  \/ OriginChange

ConcSpec == ConcInit /\ [][ConcNext]_vars

\* ------------------------------------------- concurrent calls: claims
\* C22: under any interleaving of calls on one key the two sub-entries are
\* both present or both absent, come from one response and have one TTL; every
\* step changes both or neither; a hit sets both TTLs to the configured TTL
\* and leaves the stored etag and body as they are.
C22_PairedSubEntries ==
  /\ []((rEtag = Absent) = (rBody = Absent))
  /\ [](rEtag.src = rBody.src /\ rEtag.ttl = rBody.ttl)
  /\ [][(rEtag' = rEtag) = (rBody' = rBody)]_vars
  /\ [][\A t \in Tasks :
          (tpc[t] = "exec" /\ tpc'[t] = "done" /\ rEtag # Absent) =>
             /\ rEtag'.ttl = CacheTtl /\ rBody'.ttl = CacheTtl
             /\ rEtag'.val = rEtag.val /\ rBody'.val = rBody.val
             /\ rEtag'.src = rEtag.src /\ rBody'.src = rBody.src]_vars

\* a hit that ended after another call had replaced the entry it had read
C22_Witness ==
  /\ tpc[1] = "done"
  /\ tResp[1].status = 304
  /\ rBody # Absent
  /\ rBody.val # tGot[1]
  /\ rBody.ttl = CacheTtl
  /\ ticks > 0

\* ------------------------------------------------ sync iterall: actions
notThrVars == << limVars, keyVars, exVars, pagerVars, walkVars, concVars, lruVars >>

IterInit ==
  /\ _next_result = NoneResult
  /\ _next_result_available = FALSE
  /\ threads = {}
  /\ started = 0
  /\ run = 0
  /\ result = NoneResult
  /\ itemIdx = 0
  /\ ipc = "idle"
  /\ iterYielded = << >>
  /\ timedOut = FALSE
  /\ LimIdle
  /\ KeyIdle
  /\ ExIdle
  /\ PagerIdle
  /\ WalkIdle
  /\ ConcIdle
  /\ LruIdle

\* iterall() is called on the initial page: result = self
Iterall ==
  /\ ipc \in {"idle", "ended"}
  /\ run < MaxRuns
  /\ run' = run + 1
  /\ result' = 1
  /\ itemIdx' = 0
  /\ iterYielded' = << >>
  /\ timedOut' = FALSE
  /\ ipc' = "loop"
  /\ UNCHANGED << notThrVars, _next_result, _next_result_available, threads, started >>

\* while result: threading.Thread(target=self._fetch_next_result,
\* args=(result,)).start(), then the first item of the page
StartThread ==
  /\ ipc = "loop"
  /\ IF result = NoneResult
       THEN /\ ipc' = "ended"
            /\ UNCHANGED << threads, started, itemIdx >>
       ELSE /\ threads' = threads \cup {[id |-> started + 1, page |-> result, pos |-> "fetch"]}
            /\ started' = started + 1
            /\ itemIdx' = 1
            /\ ipc' = "items"
  /\ UNCHANGED << notThrVars, _next_result, _next_result_available, run, result, iterYielded,
                  timedOut >>

\* for item in result: yield item
YieldItem ==
  /\ ipc = "items"
  /\ iterYielded' = Append(iterYielded, [page |-> result, idx |-> itemIdx])
  /\ IF itemIdx < ItemsPerPage
       THEN /\ itemIdx' = itemIdx + 1
            /\ UNCHANGED ipc
       ELSE /\ itemIdx' = 0
            /\ ipc' = "wait"
  /\ UNCHANGED << notThrVars, _next_result, _next_result_available, threads, started, run,
                  result, timedOut >>

\* self._next_result_available.wait(10) returns True: result = self._next_result
WaitReturns ==
  /\ ipc = "wait"
  /\ _next_result_available
  /\ result' = _next_result
  /\ ipc' = "clear"
  /\ UNCHANGED << notThrVars, _next_result, _next_result_available, threads, started, run,
                  itemIdx, iterYielded, timedOut >>

\* self._next_result_available.clear()
ClearEvent ==
  /\ ipc = "clear"
  /\ _next_result_available' = FALSE
  /\ ipc' = "loop"
  /\ UNCHANGED << notThrVars, _next_result, threads, started, run, result, itemIdx,
                  iterYielded, timedOut >>

\* the event is not set within 10 seconds: break
WaitTimesOut ==
  /\ ipc = "wait"
  /\ ~_next_result_available
  /\ timedOut' = TRUE
  /\ ipc' = "ended"
  /\ UNCHANGED << notThrVars, _next_result, _next_result_available, threads, started, run,
                  result, itemIdx, iterYielded >>

\* a prefetch thread: self._next_result = result.next
ThreadFetch(th) ==
  /\ th \in threads
  /\ th.pos = "fetch"
  /\ _next_result' = NextOf(th.page)
  /\ threads' = (threads \ {th}) \cup {[th EXCEPT !.pos = "set"]}
  /\ UNCHANGED << notThrVars, _next_result_available, started, run, result, itemIdx, ipc,
                  iterYielded, timedOut >>

\* a prefetch thread: self._next_result_available.set(), and the thread ends
ThreadSet(th) ==
  /\ th \in threads
  /\ th.pos = "set"
  /\ _next_result_available' = TRUE
  /\ threads' = threads \ {th}
  /\ UNCHANGED << notThrVars, _next_result, started, run, result, itemIdx, ipc, iterYielded,
                  timedOut >>

IterNext ==
  \/ Iterall
  \/ StartThread
  \/ YieldItem
  \/ WaitReturns
  \/ ClearEvent
  \/ WaitTimesOut
  \/ \E th \in threads : ThreadFetch(th)
  \/ \E th \in threads : ThreadSet(th)

IterSpec == IterInit /\ [][IterNext]_vars

\* ------------------------------------------------- sync iterall: claims
IsPrefix(p, q) == Len(p) <= Len(q) /\ p = SubSeq(q, 1, Len(p))

\* C28: every run of the thread-based iterall yields the items of the pages
\* in next-link order, nothing repeated or skipped, with at most one prefetch
\* thread alive, and ends only after the last page or after the wait ran out.
C28_ThreadedWalk ==
  /\ IsPrefix(iterYielded, AllItems)
  /\ Cardinality(threads) <= 1
  /\ ipc = "ended" => (timedOut \/ iterYielded = AllItems)

\* the same for the first run on a result
FirstRunThreadedWalk == run <= 1 => C28_ThreadedWalk

\* ------------------------------------------------------- all(): claims
\* the sync all(limit): chain.from_iterable(executor.map(self._get_with_params,
\* params_list)), the items of the derived pages in the order of params_list;
\* [] without derived pages
RECURSIVE ChainPages(_)
ChainPages(k) == IF k = 0 THEN << >> ELSE ChainPages(k - 1) \o PageIter(k)

all(lim) == ChainPages(Len(get_next_params_list(page, lim)))

\* C29: for the same initial page and a server that answers every request,
\* the sync all() and the async all() return the same items: those of the
\* initial page and of every derived page.
C29_SameItems ==
  (/\ wpc = "ended"
   /\ \A f \in 1..nOps : status[f] = "ok")
  => /\ SeqToSet(delivered) = SeqToSet(all(pageLimit))
     /\ SeqToSet(all(pageLimit)) = UNION {SeqToSet(PageIter(f)) : f \in 0..nOps}

\* --------------------------------------------------- async_lru: actions
notLruVars == << limVars, keyVars, exVars, pagerVars, walkVars, concVars, thrVars >>

LruInit ==
  /\ cache = << >>
  /\ memo = [c \in Callers |-> NoMemo]
  /\ memoCalls = 0
  /\ LimIdle
  /\ KeyIdle
  /\ ExIdle
  /\ PagerIdle
  /\ WalkIdle
  /\ ConcIdle
  /\ ThrIdle

InCache(k) == \E i \in 1..Len(cache) : cache[i] = k

\* cache.pop(key), then cache[key] = value: the key becomes the last one
MoveToEnd(k) == Append(SelectSeq(cache, LAMBDA x : x # k), k)

\* cache[key] = value: a new key goes to the end, a key already in the
\* OrderedDict keeps its place
SetItem(k) == IF InCache(k) THEN cache ELSE Append(cache, k)

\* memoizer(*args, **kwargs) up to its await: a hit moves the key to the end
\* and returns; a miss drops the oldest key when the cache is full and awaits fn
Memoizer(c, k) ==
  /\ memo[c].pos = "idle"
  /\ memoCalls < MaxMemoCalls
  /\ memoCalls' = memoCalls + 1
  /\ IF InCache(k)
       THEN /\ cache' = MoveToEnd(k)
            /\ memo' = [memo EXCEPT ![c] = [key |-> k, pos |-> "idle"]]
       ELSE /\ cache' = IF Len(cache) >= LruMaxsize THEN Tail(cache) ELSE cache
            /\ memo' = [memo EXCEPT ![c] = [key |-> k, pos |-> "await"]]
  /\ UNCHANGED notLruVars

\* fn returns: cache[key] = <the value>; return cache[key]
FnReturns(c) ==
  /\ memo[c].pos = "await"
  /\ cache' = SetItem(memo[c].key)
  /\ memo' = [memo EXCEPT ![c].pos = "idle"]
  /\ UNCHANGED << notLruVars, memoCalls >>

\* fn raises: the exception leaves the memoizer
FnRaises(c) ==
  /\ memo[c].pos = "await"
  /\ memo' = [memo EXCEPT ![c].pos = "idle"]
  /\ UNCHANGED << notLruVars, cache, memoCalls >>

LruNext ==
  \/ \E c \in Callers, k \in LruKeys : Memoizer(c, k)
  \/ \E c \in Callers : FnReturns(c)
  \/ \E c \in Callers : FnRaises(c)

LruSpec == LruInit /\ [][LruNext]_vars

\* ---------------------------------------------------- async_lru: claims
\* C30: the memo cache never holds more than maxsize keys.
C30_SizeBound == Len(cache) <= LruMaxsize


====
